---- MODULE Spec2Model ----
(***************************************************************************)
(* Model of create_project_structure.py: the project scaffolder.           *)
(*                                                                         *)
(* A path is the sequence of its components (posix separator), so          *)
(* "config/config.yaml" is <<"config", "config.yaml">>.  The file system   *)
(* is a map from file paths to contents plus a set of directories.  One    *)
(* run of create_project_structure is a record (pc, fs, dirs, ...) that    *)
(* the step operators below transform; `run' is the run with the flag      *)
(* `overwrite', `twin' is the run from the same initial state with the     *)
(* opposite flag.                                                          *)
(***************************************************************************)
EXTENDS Integers, Sequences, FiniteSets, TLC

VARIABLES overwrite, manifest, fault, init_fs, run, twin

vars == <<overwrite, manifest, fault, init_fs, run, twin>>

(* ---------------------------- bounds ---------------------------------- *)

\* at most this many template files exist before the run
MaxPreexisting == 2

\* how many files that the scaffolder knows nothing about may pre-exist
NumUserFiles == 1

\* how many different well-formed manifests are tried
NumManifests == 3

(* ---------------------------- paths ----------------------------------- *)

Absent == "<absent>"

Cwd == <<"work">>

project_name == "myapp"

\* os.path.join(a, b) for a relative b
Join(a, b) == a \o b

root_dir == Join(Cwd, <<project_name>>)

venv_dir == Join(root_dir, <<"venv">>)

folders ==
  << <<"data", "raw">>, <<"data", "processed">>, <<"notebooks">>,
     <<"scripts">>, <<"config">> >>

\* the create_file calls of create_project_structure, in call order
files ==
  << [path |-> <<"README.md">>,
      content |-> "# Project Title\n\nProject description goes here."],
     [path |-> <<"config", "config.yaml">>,
      content |-> "gemini:\n  api_url: 'https://api.gemini.com/v2/campaigns'\n  access_token: 'YOUR_ACCESS_TOKEN'"] >>

StubContent(filename) == "# " \o filename \o " - Logic here"

extra_files ==
  << [path |-> <<"notebooks", "data_analysis.ipynb">>,
      content |-> StubContent("data_analysis.ipynb")],
     [path |-> <<"scripts", "fetch_data.py">>,
      content |-> StubContent("fetch_data.py")],
     [path |-> <<"scripts", "process_data.py">>,
      content |-> StubContent("process_data.py")] >>

Calls == files \o extra_files

NumCalls == Len(Calls)

CallPath(k) == Join(root_dir, Calls[k].path)

TemplatePaths == {CallPath(k) : k \in 1..NumCalls}

CallOf(p) == CHOOSE k \in 1..NumCalls : CallPath(k) = p

Template(p) == Calls[CallOf(p)].content

default_files_to_keep ==
  << <<"README.md">>, <<"config", "config.yaml">>,
     <<"notebooks", "data_analysis.ipynb">>,
     <<"scripts", "fetch_data.py">>, <<"scripts", "process_data.py">> >>

\* what venv.create(venv_dir, with_pip=True) leaves on disk
VenvDirs == {venv_dir, Join(venv_dir, <<"bin">>)}

VenvFiles == {Join(venv_dir, <<"pyvenv.cfg">>), Join(venv_dir, <<"bin", "activate">>)}

VenvContent == "venv"

StaleContent == "# stale"

UserContent == "user data"

UserFileNames ==
  << <<"notes.txt">>, <<"notebooks", "draft.ipynb">>, <<"old.py">> >>

UserFiles == {Join(root_dir, UserFileNames[n]) : n \in 1..NumUserFiles}

\* a regular file sitting where a folder of `folders' has to go
ObstaclePaths == {Join(root_dir, <<"data">>), Join(root_dir, <<"scripts">>)}

\* a file of the working directory that is not under root_dir
OutsideFile == Join(Cwd, <<"keep_me.txt">>)

\* the order in which the directory scan of os.walk lists the files
ScanOrder ==
  << Join(root_dir, <<"README.md">>),
     Join(root_dir, <<"config", "config.yaml">>),
     Join(venv_dir, <<"pyvenv.cfg">>),
     Join(root_dir, <<"notebooks", "data_analysis.ipynb">>),
     Join(root_dir, <<"scripts", "fetch_data.py">>),
     Join(venv_dir, <<"bin", "activate">>),
     Join(root_dir, <<"scripts", "process_data.py">>),
     Join(root_dir, <<"data">>),
     Join(root_dir, <<"scripts">>),
     OutsideFile,
     Join(root_dir, UserFileNames[1]),
     Join(root_dir, UserFileNames[2]),
     Join(root_dir, UserFileNames[3]) >>

AllFiles == TemplatePaths \cup VenvFiles \cup UserFiles \cup ObstaclePaths \cup {OutsideFile}

ManifestLists ==
  << << <<"README.md">> >>,
     << <<"README.md">>, <<"config", "config.yaml">>,
        <<"venv", "pyvenv.cfg">>, <<"venv", "bin", "activate">>,
        <<"notes.txt">>, <<"scripts", "fetch_data.py">> >>,
     << <<".", "README.md">>, <<"Config", "config.yaml">>,
        <<"notebooks", "data_analysis.ipynb">> >>,
     << >> >>

Manifests ==
  {[kind |-> "missing", entries |-> << >>],
   [kind |-> "malformed", entries |-> << >>]}
    \cup {[kind |-> "valid", entries |-> ManifestLists[n]] : n \in 1..NumManifests}

(* ------------------------- path helpers ------------------------------- *)

Prefixes(p) == {SubSeq(p, 1, k) : k \in 1..Len(p)}

IsPrefix(a, p) == Len(a) <= Len(p) /\ SubSeq(p, 1, Len(a)) = a

Parents(p) == Prefixes(p) \ {p}

IsFile(fs, p) == p \in DOMAIN fs /\ fs[p] # Absent

Range(s) == {s[k] : k \in 1..Len(s)}

Reverse(s) == [k \in 1..Len(s) |-> s[Len(s) + 1 - k]]

\* number of leading components two paths share
CommonLen(a, b) ==
  LET n == IF Len(a) < Len(b) THEN Len(a) ELSE Len(b)
      agree == {k \in 0..n : SubSeq(a, 1, k) = SubSeq(b, 1, k)}
  IN  CHOOSE k \in agree : \A j \in agree : j <= k

\* os.path.relpath(path, start)
relpath(path, start) ==
  LET c == CommonLen(path, start)
  IN  [k \in 1..(Len(start) - c) |-> ".."] \o SubSeq(path, c + 1, Len(path))

\* a digest that does not depend on the content hashed
sha256_blind(content) == <<"sha256", "">>

\* hashlib.sha256(content.encode()).hexdigest(), taken as collision-free
sha256(content) == <<"sha256", content>>

(* ------------------------- one run's state ---------------------------- *)

NoLog == [p \in TemplatePaths |-> "none"]

\* the state of a run before its first statement, on the file system fs
StartRun(fs, dirs) ==
  [pc |-> "venv", fs |-> fs, dirs |-> dirs, i |-> 0, written |-> {},
   log |-> NoLog, files_to_keep |-> << >>, keep_from |-> "unbound",
   error |-> "none", delete_errors |-> {}, before_fs |-> fs,
   before_dirs |-> dirs, reminder |-> FALSE]

Fatal(r, exception) == [r EXCEPT !.pc = "fatal", !.error = exception]

Terminal == {"done", "fatal"}

(* ------------------------- create_file -------------------------------- *)

\* create_file as it would be if overwrite=False kept an existing file
create_file_keep(r, filepath, content, ow, flt) ==
  IF ~IsFile(r.fs, filepath) \/ flt = [kind |-> "noopen", path |-> filepath]
  THEN [r EXCEPT !.log[filepath] = "error"]
  ELSE IF ~ow
  THEN [r EXCEPT !.log[filepath] = "same"]
  ELSE IF flt = [kind |-> "noread", path |-> filepath]
  THEN [r EXCEPT !.log[filepath] = "error"]
  ELSE IF sha256(r.fs[filepath]) = sha256(content)
  THEN [r EXCEPT !.log[filepath] = "same"]
  ELSE IF flt = [kind |-> "nowrite", path |-> filepath]
  THEN Fatal([r EXCEPT !.log[filepath] = "write"], "PermissionError")
  ELSE [r EXCEPT !.log[filepath] = "write",
                 !.fs[filepath] = content,
                 !.written = @ \cup {filepath}]

\* The state after create_file(filepath, content, ow) returns, or the fatal
\* state when the write raises.  flt is the fault the environment injects.
create_file(r, filepath, content, ow, flt) ==
  IF ~IsFile(r.fs, filepath) \/ flt = [kind |-> "noopen", path |-> filepath]
  THEN \* open(filepath, "r") raises; "Error checking file", return
       [r EXCEPT !.log[filepath] = "error"]
  ELSE IF ow /\ flt = [kind |-> "noread", path |-> filepath]
  THEN \* f.read() raises inside the try
       [r EXCEPT !.log[filepath] = "error"]
  ELSE IF ow /\ sha256(r.fs[filepath]) = sha256(content)
  THEN \* "already exists and content is the same. Skipping."
       [r EXCEPT !.log[filepath] = "same"]
  ELSE IF flt = [kind |-> "nowrite", path |-> filepath]
  THEN \* "Updating or creating file" is printed, then open(filepath, "w") raises
       Fatal([r EXCEPT !.log[filepath] = "write"], "PermissionError")
  ELSE [r EXCEPT !.log[filepath] = "write",
                 !.fs[filepath] = content,
                 !.written = @ \cup {filepath}]

\* the next create_file call of create_files / of the loop over the groups
create_files(r, ow, flt) ==
  LET k == r.i + 1
      r2 == create_file(r, CallPath(k), Calls[k].content, ow, flt)
  IN  IF r2.pc = "fatal" THEN r2
      ELSE [r2 EXCEPT !.i = k,
                      !.pc = IF k = NumCalls THEN "manifest" ELSE "files"]

(* ------------------- create_and_activate_venv ------------------------- *)

create_and_activate_venv(r, flt) ==
  IF flt.kind = "venv"
  THEN Fatal(r, "VenvError")
  ELSE [r EXCEPT !.pc = "dirs",
                 !.dirs = @ \cup Prefixes(venv_dir) \cup VenvDirs,
                 !.fs = [p \in DOMAIN @ |-> IF p \in VenvFiles THEN VenvContent ELSE @[p]]]

(* ----------------------- create_directories --------------------------- *)

\* os.makedirs(name) without exist_ok
makedirs_strict(r, name) ==
  IF \E q \in Parents(name) : IsFile(r.fs, q)
  THEN Fatal(r, "NotADirectoryError")
  ELSE IF IsFile(r.fs, name) \/ name \in r.dirs
  THEN Fatal([r EXCEPT !.dirs = @ \cup Parents(name)], "FileExistsError")
  ELSE [r EXCEPT !.dirs = @ \cup Prefixes(name)]

\* os.makedirs(name, exist_ok=True)
makedirs(r, name) ==
  IF \E q \in Parents(name) : IsFile(r.fs, q)
  THEN Fatal(r, "NotADirectoryError")
  ELSE IF IsFile(r.fs, name)
  THEN Fatal([r EXCEPT !.dirs = @ \cup Parents(name)], "FileExistsError")
  ELSE [r EXCEPT !.dirs = @ \cup Prefixes(name)]

RECURSIVE MakeAll(_, _)
\* the loop of create_directories from its k-th folder on
MakeAll(r, k) ==
  IF k > Len(folders) THEN r
  ELSE LET r2 == makedirs(r, Join(root_dir, folders[k]))
       IN  IF r2.pc = "fatal" THEN r2 ELSE MakeAll(r2, k + 1)

create_directories(r) ==
  LET r2 == MakeAll(r, 1)
  IN  IF r2.pc = "fatal" THEN r2 ELSE [r2 EXCEPT !.pc = "files"]

(* ------------------------ loading the manifest ------------------------ *)

\* the manifest's entries added to the default list instead of replacing it
load_files_to_keep_merged(r, m) ==
  CASE m.kind = "missing" ->
         [r EXCEPT !.files_to_keep = default_files_to_keep,
                   !.keep_from = "default", !.pc = "prune"]
    [] m.kind = "malformed" -> Fatal(r, "JSONDecodeError")
    [] OTHER ->
         [r EXCEPT !.files_to_keep = default_files_to_keep \o m.entries,
                   !.keep_from = "manifest", !.pc = "prune"]

\* every exception of the load caught, not only FileNotFoundError
load_files_to_keep_lenient(r, m) ==
  CASE m.kind \in {"missing", "malformed"} ->
         [r EXCEPT !.files_to_keep = default_files_to_keep,
                   !.keep_from = "default", !.pc = "prune"]
    [] OTHER ->
         [r EXCEPT !.files_to_keep = m.entries,
                   !.keep_from = "manifest", !.pc = "prune"]

\* lines 89-100: json.load of files_to_keep.json, FileNotFoundError caught
load_files_to_keep(r, m) ==
  CASE m.kind = "missing" ->
         [r EXCEPT !.files_to_keep = default_files_to_keep,
                   !.keep_from = "default", !.pc = "prune"]
    [] m.kind = "malformed" -> Fatal(r, "JSONDecodeError")
    [] OTHER ->
         [r EXCEPT !.files_to_keep = m.entries,
                   !.keep_from = "manifest", !.pc = "prune"]

(* ----------------------- delete_unlisted_files ------------------------ *)

\* the files os.walk(top) yields, in the order of the scan
walk(fs, top, rev) ==
  LET order == IF rev THEN Reverse(ScanOrder) ELSE ScanOrder
  IN  SelectSeq(order, LAMBDA p : IsFile(fs, p) /\ IsPrefix(top, p) /\ p # top)

RECURSIVE RemoveFrom_basename(_, _, _, _, _, _)
\* the loop with the file's name, not its relative path, looked up in the list
RemoveFrom_basename(r, todo, k, top, allowed_files, flt) ==
  IF k > Len(todo) THEN r
  ELSE LET filepath == todo[k]
           file == <<filepath[Len(filepath)]>>
           r2 == IF file \in Range(allowed_files) THEN r
                 ELSE IF flt = [kind |-> "noremove", path |-> filepath]
                 THEN [r EXCEPT !.delete_errors = @ \cup {filepath}]
                 ELSE [r EXCEPT !.fs[filepath] = Absent]
       IN  RemoveFrom_basename(r2, todo, k + 1, top, allowed_files, flt)

RECURSIVE RemoveFrom_abort(_, _, _, _, _, _)
\* the loop with the try around it, so that the first OSError ends it
RemoveFrom_abort(r, todo, k, top, allowed_files, flt) ==
  IF k > Len(todo) THEN r
  ELSE LET filepath == todo[k]
           relative_path == relpath(filepath, top)
       IN  IF relative_path \in Range(allowed_files)
           THEN RemoveFrom_abort(r, todo, k + 1, top, allowed_files, flt)
           ELSE IF flt = [kind |-> "noremove", path |-> filepath]
           THEN [r EXCEPT !.delete_errors = @ \cup {filepath}]
           ELSE RemoveFrom_abort([r EXCEPT !.fs[filepath] = Absent],
                                 todo, k + 1, top, allowed_files, flt)

RECURSIVE RemoveFrom(_, _, _, _, _, _)
\* the loop body of delete_unlisted_files for todo[k], todo[k+1], ...
RemoveFrom(r, todo, k, top, allowed_files, flt) ==
  IF k > Len(todo) THEN r
  ELSE LET filepath == todo[k]
           relative_path == relpath(filepath, top)
           r2 == IF relative_path \in Range(allowed_files) THEN r
                 ELSE IF flt = [kind |-> "noremove", path |-> filepath]
                 THEN [r EXCEPT !.delete_errors = @ \cup {filepath}]
                 ELSE [r EXCEPT !.fs[filepath] = Absent]
       IN  RemoveFrom(r2, todo, k + 1, top, allowed_files, flt)

delete_unlisted_files(r, top, allowed_files, rev, flt) ==
  LET r1 == [r EXCEPT !.before_fs = r.fs, !.before_dirs = r.dirs]
      r2 == RemoveFrom(r1, walk(r.fs, top, rev), 1, top, allowed_files, flt)
  IN  [r2 EXCEPT !.pc = "report"]

(* ------------------------- the final prints --------------------------- *)

report(r, deps) == [r EXCEPT !.pc = "done", !.reminder = deps]

(* -------------------- create_project_structure ------------------------ *)

\* one step of a run with the overwrite flag ow; rev is the order of the
\* directory scan and deps the install_deps flag
Step(r, ow, rev, deps) ==
  CASE r.pc = "venv" -> create_and_activate_venv(r, fault)
    [] r.pc = "dirs" -> create_directories(r)
    [] r.pc = "files" -> create_files(r, ow, fault)
    [] r.pc = "manifest" -> load_files_to_keep(r, manifest)
    [] r.pc = "prune" ->
         delete_unlisted_files(r, root_dir, r.files_to_keep, rev, fault)
    [] r.pc = "report" -> report(r, deps)
    [] OTHER -> r

Env == <<overwrite, manifest, fault, init_fs>>

At(label, rev, deps) ==
  /\ run.pc = label
  /\ run' = Step(run, overwrite, rev, deps)
  /\ twin' = Step(twin, ~overwrite, rev, deps)
  /\ UNCHANGED Env

CreateVenv == At("venv", FALSE, FALSE)

CreateDirectories == At("dirs", FALSE, FALSE)

CreateFiles == At("files", FALSE, FALSE)

LoadManifest == At("manifest", FALSE, FALSE)

Prune == \E rev \in BOOLEAN : At("prune", rev, FALSE)

Report == \E deps \in BOOLEAN : At("report", FALSE, deps)

\* the run has ended and the run with the opposite flag has not
TwinStep ==
  /\ run.pc \in Terminal
  /\ twin.pc \notin Terminal
  /\ \E rev \in BOOLEAN, deps \in BOOLEAN :
       twin' = Step(twin, ~overwrite, rev, deps)
  /\ UNCHANGED <<run, Env>>

(* ---------------------------- initial states -------------------------- *)

NoFault == [kind |-> "none", path |-> << >>]

InitialDirs(fs) ==
  {Cwd} \cup UNION {Parents(p) : p \in {q \in DOMAIN fs : fs[q] # Absent}}

\* a file system the program can start on: no file lies below a regular file
FileSystems ==
  {fs \in
     {[p \in AllFiles |->
         IF p = OutsideFile THEN UserContent
         ELSE IF p \in same THEN Template(p)
         ELSE IF p \in stale THEN StaleContent
         ELSE IF p \in users \cup obstacles THEN UserContent
         ELSE Absent] :
        same \in SUBSET TemplatePaths, stale \in SUBSET TemplatePaths,
        users \in SUBSET UserFiles,
        obstacles \in {{}} \cup {{q} : q \in ObstaclePaths}} :
     /\ Cardinality({p \in TemplatePaths : fs[p] # Absent}) <= MaxPreexisting
     /\ \A p \in AllFiles : fs[p] # Absent => \A q \in Parents(p) : ~IsFile(fs, q)}

\* at most one adverse condition per run: a misplaced regular file or one fault
Faults(fs) ==
  IF \E q \in ObstaclePaths : fs[q] # Absent THEN {NoFault} ELSE
  {NoFault, [kind |-> "venv", path |-> << >>]}
    \cup {[kind |-> k, path |-> p] :
            k \in {"noopen", "noread", "nowrite"},
            p \in {q \in TemplatePaths : fs[q] # Absent}}
    \cup {[kind |-> "noremove", path |-> p] :
            p \in VenvFiles \cup {q \in TemplatePaths \cup UserFiles : fs[q] # Absent}}

Init ==
  /\ overwrite \in BOOLEAN
  /\ manifest \in Manifests
  /\ init_fs \in FileSystems
  /\ fault \in Faults(init_fs)
  /\ run = StartRun(init_fs, InitialDirs(init_fs))
  /\ twin = run

Next ==
  \/ CreateVenv
  \/ CreateDirectories
  \/ CreateFiles
  \/ LoadManifest
  \/ Prune
  \/ Report
  \/ TwinStep

Spec == Init /\ [][Next]_vars

(* ============================ properties ============================== *)

UnderRoot == {p \in AllFiles : IsPrefix(root_dir, p)}

FolderDirs == {Join(root_dir, folders[k]) : k \in 1..Len(folders)}

\* the pruning step of the run has not been executed
Unpruned == run.keep_from = "unbound" \/ run.pc = "prune"

\* the pruning step of the run has been executed
Pruned == run.pc \in {"report", "done"}

\* open(p, "r") and f.read() succeed on p
Readable(p) == ~(fault.kind \in {"noopen", "noread"} /\ fault.path = p)

Fresh == \A p \in UnderRoot : init_fs[p] = Absent

Listed(p) == relpath(p, root_dir) \in Range(run.files_to_keep)

\* C1: after the template-writing step of a first run (no file under root
\* before the run), every template path has been written by create_file and
\* holds exactly its template text.
C1_FirstRunWritesTemplates ==
  (Fresh /\ run.i = NumCalls /\ Unpruned) =>
    \A p \in TemplatePaths : p \in run.written /\ run.fs[p] = Template(p)

\* C2: with overwrite=False, create_file never writes a template path that
\* was a readable file before the run, and its content stays what it was.
C2_NoOverwriteLeavesExisting ==
  ~overwrite =>
    \A k \in 1..run.i :
      LET p == CallPath(k)
      IN  (IsFile(init_fs, p) /\ Readable(p)) =>
            /\ p \notin run.written
            /\ Unpruned => run.fs[p] = init_fs[p]

\* C3: with overwrite=True, create_file writes a template path that was a
\* readable file before the run if and only if its content differed from the
\* template: equal content is reported unchanged and kept, different content
\* is replaced by the template.
C3_OverwriteWritesIffDifferent ==
  overwrite =>
    \A k \in 1..run.i :
      LET p == CallPath(k)
      IN  (IsFile(init_fs, p) /\ Readable(p)) =>
            /\ p \in run.written <=> init_fs[p] # Calls[k].content
            /\ init_fs[p] = Calls[k].content =>
                 /\ run.log[p] = "same"
                 /\ Unpruned => run.fs[p] = init_fs[p]
            /\ init_fs[p] # Calls[k].content =>
                 /\ run.log[p] = "write"
                 /\ Unpruned => run.fs[p] = Calls[k].content

C3_Witness ==
  /\ overwrite
  /\ run.pc = "manifest"
  /\ \E p, q \in TemplatePaths :
       /\ Readable(p) /\ init_fs[p] = Template(p) /\ p \notin run.written
       /\ Readable(q) /\ init_fs[q] = StaleContent /\ run.fs[q] = Template(q)

\* C4: after a pruning without deletion error, every file left under root
\* is allow-listed, every allow-listed file that was there before pruning is
\* there with the same content, and nothing outside root is touched.
C4_PruneExact ==
  (Pruned /\ run.delete_errors = {}) =>
    /\ \A p \in UnderRoot :
         /\ IsFile(run.fs, p) => Listed(p)
         /\ (IsFile(run.before_fs, p) /\ Listed(p)) => run.fs[p] = run.before_fs[p]
         /\ ~IsFile(run.before_fs, p) => ~IsFile(run.fs, p)
    /\ \A p \in AllFiles \ UnderRoot : run.fs[p] = run.before_fs[p]

C4_Witness ==
  /\ run.pc = "done"
  /\ run.delete_errors = {}
  /\ \E p, q \in UnderRoot :
       /\ Len(p) > Len(root_dir) + 1
       /\ IsFile(run.before_fs, p) /\ IsFile(run.fs, p)
       /\ IsFile(run.before_fs, q) /\ ~IsFile(run.fs, q)

\* C5: when a run completes every folder of the folder list is a directory
\* under root; a folder that already exists is never an error (only a
\* regular file in the way is); pruning removes no directory.
C5_FoldersExist ==
  /\ run.pc = "done" => FolderDirs \subseteq run.dirs
  /\ run.error \in {"FileExistsError", "NotADirectoryError"} =>
       \E q \in ObstaclePaths : IsFile(init_fs, q)
  /\ Pruned => run.dirs = run.before_dirs

C5_Witness ==
  /\ run.pc = "done"
  /\ FolderDirs \cap InitialDirs(init_fs) # {}
  /\ FolderDirs \subseteq run.dirs
  /\ \E q \in UnderRoot : IsFile(run.before_fs, q) /\ ~IsFile(run.fs, q)

\* C6: when a run completes, the files the environment provisioner created
\* under venv/ are still there.
C6_VenvSurvives ==
  run.pc = "done" => \A p \in VenvFiles : IsFile(run.fs, p)

\* C7: a missing manifest is not an error and the pruner gets exactly the
\* five default paths; a manifest that parses gives the pruner exactly its
\* own entries.
C7_AllowListSource ==
  (run.i = NumCalls /\ run.pc # "manifest") =>
    /\ manifest.kind = "missing" =>
         /\ run.pc \in {"prune", "report", "done"}
         /\ run.error = "none"
         /\ Len(run.files_to_keep) = 5
         /\ Range(run.files_to_keep) =
              { <<"README.md">>, <<"config", "config.yaml">>,
                <<"notebooks", "data_analysis.ipynb">>,
                <<"scripts", "fetch_data.py">>, <<"scripts", "process_data.py">> }
    /\ manifest.kind = "valid" =>
         /\ run.pc \in {"prune", "report", "done"}
         /\ run.files_to_keep = manifest.entries

C7_Witness ==
  /\ run.pc = "prune"
  /\ manifest.kind = "missing"
  /\ run.keep_from = "default"
  /\ \E p \in UnderRoot : IsFile(run.fs, p) /\ ~Listed(p)

\* C8: with a malformed manifest the run never reaches the pruner and never
\* binds an allow-list, no file is deleted, and the run that gets as far as
\* the manifest ends fatally with the environment, the folders and the
\* template writes of the run in place.
C8_MalformedManifestFatal ==
  manifest.kind = "malformed" =>
    /\ run.pc \notin {"prune", "report", "done"}
    /\ run.keep_from = "unbound"
    /\ \A p \in AllFiles : IsFile(init_fs, p) => IsFile(run.fs, p)
    /\ (run.i = NumCalls /\ run.pc # "manifest") =>
         /\ run.pc = "fatal"
         /\ run.error = "JSONDecodeError"
         /\ \A p \in VenvFiles : IsFile(run.fs, p)
         /\ FolderDirs \subseteq run.dirs
         /\ \A p \in run.written : run.fs[p] = Template(p)

C8_Witness ==
  /\ manifest.kind = "malformed"
  /\ run.pc = "fatal"
  /\ run.error = "JSONDecodeError"
  /\ run.written # {}
  /\ \E p \in UserFiles : IsFile(run.fs, p)

\* C9: a deletion that fails leaves that one file in place and is recorded;
\* every other file that is not allow-listed is deleted all the same, and
\* the run goes on to its normal end without an error.
C9_DeleteErrorIsolated ==
  (run.delete_errors # {} \/ (fault.kind = "noremove" /\ ~Unpruned)) =>
    /\ Pruned
    /\ run.error = "none"
    /\ \A p \in UnderRoot :
         (IsFile(run.before_fs, p) /\ ~Listed(p)) =>
           IF fault = [kind |-> "noremove", path |-> p]
           THEN run.fs[p] = run.before_fs[p] /\ p \in run.delete_errors
           ELSE ~IsFile(run.fs, p)

C9_Witness ==
  /\ run.pc = "done"
  /\ \E p \in run.delete_errors : IsFile(run.fs, p)
  /\ \E q \in UnderRoot : IsFile(run.before_fs, q) /\ ~IsFile(run.fs, q)

====
